---- MODULE Spec2Model ----
(***************************************************************************)
(* The Boltzmann wealth model of docs/tutorials/8_comparing_scenarios.ipynb *)
(* (and of the "Collecting Data" notebook that follows it in the same      *)
(* file): MoneyAgent, MoneyModel and the Gini helper compute_gini.         *)
(*                                                                         *)
(* Agents are the integers 1..num_agents in creation order, which is the   *)
(* iteration order of model.agents.  A cell is a pair <<x, y>> of the      *)
(* torus grid.  Python floats are modelled as exact rationals, kept as a   *)
(* reduced fraction num/den with den > 0; binary64 rounding is not         *)
(* modelled.                                                               *)
(***************************************************************************)
EXTENDS Integers, Sequences, FiniteSets, TLC

\* ---- bounds of the model ------------------------------------------------
MaxN == 3          \* largest n passed to MoneyModel(n, width, height)
Width == 3         \* width passed to MoneyModel
Height == 1        \* height passed to MoneyModel: the grid is one row
MaxSteps == 2      \* number of model.step() calls explored
MaxLen == 3        \* longest wealth snapshot handed to compute_gini directly
MaxWealth == 3     \* largest single wealth in such a snapshot
MaxScale == 2      \* largest factor c of the scaling experiment
MaxScaled == 6     \* no wealth is scaled beyond this value

VARIABLES
    variant,          \* which notebook's classes are in use
    num_agents,       \* model.num_agents
    agents,           \* model.agents, the agents created so far
    wealth,           \* agent.wealth, in model.agents order
    cell,             \* agent.cell
    steps_not_given,  \* agent.steps_not_given (comparing-scenarios variant)
    pc,               \* position inside MoneyModel.step
    todo,             \* agents shuffle_do("move") has not reached yet
    idx,              \* next agent of do("give_money")
    steps,            \* completed or started step() calls
    model_vars,       \* datacollector.model_vars["Gini"]
    agent_vars,       \* datacollector agent records, one per collect
    ret,              \* result of the latest direct compute_gini(model) call
    ref,              \* the snapshot and result that call is compared with
    wealth2,          \* agent.wealth of a collecting-data model run alongside
    cell2             \* agent.cell of that model

vars == <<variant, num_agents, agents, wealth, cell, steps_not_given, pc, todo, idx,
          steps, model_vars, agent_vars, ret, ref, wealth2, cell2>>

agentState == <<num_agents, agents, wealth, cell, steps_not_given>>

\* the second model; it exists only in the side-by-side run
second == <<wealth2, cell2>>

\* ---- rationals ----------------------------------------------------------
Abs(i) == IF i < 0 THEN -i ELSE i

RECURSIVE GCD(_, _)
GCD(a, b) == IF b = 0 THEN a ELSE GCD(b, a % b)

\* the value p/q (q # 0) as a reduced fraction
Fraction(p, q) ==
    LET g == GCD(Abs(p), Abs(q))
        s == IF q < 0 THEN -1 ELSE 1
    IN  [kind |-> "value", num |-> (s * p) \div g, den |-> (s * q) \div g]

ZeroDivisionError == [kind |-> "ZeroDivisionError", num |-> 0, den |-> 1]
NoResult == [kind |-> "none", num |-> 0, den |-> 1]

\* ---- compute_gini -------------------------------------------------------
RECURSIVE SumSeq(_)
SumSeq(s) == IF s = <<>> THEN 0 ELSE Head(s) + SumSeq(Tail(s))

\* insert v into the ascending sequence s
RECURSIVE Insert(_, _)
Insert(v, s) ==
    IF s = <<>> THEN <<v>>
    ELSE IF v <= Head(s) THEN <<v>> \o s
    ELSE <<Head(s)>> \o Insert(v, Tail(s))

sortedUnsorted(s) == s

RECURSIVE sorted(_)
sorted(s) == IF s = <<>> THEN <<>> ELSE Insert(Head(s), sorted(Tail(s)))

RECURSIVE WeightedSumFromOne(_, _, _)
WeightedSumFromOne(x, n, i) ==
    IF x = <<>> THEN 0
    ELSE Head(x) * (n - (i + 1)) + WeightedSumFromOne(Tail(x), n, i + 1)

\* sum(xi * (n - i) for i, xi in enumerate(x)); i counts from 0
RECURSIVE WeightedSum(_, _, _)
WeightedSum(x, n, i) ==
    IF x = <<>> THEN 0 ELSE Head(x) * (n - i) + WeightedSum(Tail(x), n, i + 1)

divisorSquare(x, n) == n * n

\* n * sum(x), the divisor of B
divisor(x, n) == n * SumSeq(x)

compute_giniDescending(agent_wealths, n) ==
    LET x == sorted(agent_wealths)
        r == [i \in 1..Len(x) |-> x[Len(x) + 1 - i]]
        s == WeightedSum(r, n, 0)
        d == divisor(r, n)
    IN  IF d = 0 THEN ZeroDivisionError
        ELSE Fraction(n * d + d - 2 * s * n, n * d)

compute_giniGuarded(agent_wealths, n) ==
    LET x == sorted(agent_wealths)
        s == WeightedSum(x, n, 0)
        d == divisor(x, n)
    IN  IF d = 0 THEN Fraction(0, 1)
        ELSE Fraction(n * d + d - 2 * s * n, n * d)

\* compute_gini(model) with agent_wealths = [agent.wealth for agent in
\* model.agents] and n = model.num_agents: B = s / d raises when d = 0,
\* otherwise the result is 1 + (1 / n) - 2 * B
compute_gini(agent_wealths, n) ==
    LET x == sorted(agent_wealths)
        s == WeightedSum(x, n, 0)
        d == divisor(x, n)
    IN  IF d = 0 THEN ZeroDivisionError
        ELSE Fraction(n * d + d - 2 * s * n, n * d)

\* ---- the grid -----------------------------------------------------------
\* grid.all_cells.cells; with at most 10 agents in the model no cell ever
\* holds more than its capacity of 10
Cells == (0..(Width - 1)) \X (0..(Height - 1))

\* cell.neighborhood of the Moore grid with torus = True: the cells one step
\* away in any direction, wrapped around, without the cell itself
Neighborhood(c) ==
    { <<(c[1] + dx) % Width, (c[2] + dy) % Height>> :
          dx \in {-1, 0, 1}, dy \in {-1, 0, 1} } \ {c}

Variants == {"comparing", "collecting"}

InitOneShort ==
    /\ variant \in Variants
    /\ num_agents \in 0..MaxN
    /\ agents = 1..(num_agents - 1)
    /\ wealth = [a \in 1..num_agents |-> 1]
    /\ cell \in [1..num_agents -> Cells]
    /\ steps_not_given = [a \in 1..num_agents |-> 0]
    /\ pc = "idle"
    /\ todo = {}
    /\ idx = 1
    /\ steps = 0
    /\ model_vars = <<>>
    /\ agent_vars = <<>>
    /\ ret = NoResult
    /\ ref = [input |-> <<>>, ret |-> NoResult]
    /\ wealth2 = <<>>
    /\ cell2 = <<>>

InitNoWealth ==
    /\ variant \in Variants
    /\ num_agents \in 0..MaxN
    /\ agents = 1..num_agents
    /\ wealth = [a \in 1..num_agents |-> 0]
    /\ cell \in [1..num_agents -> Cells]
    /\ steps_not_given = [a \in 1..num_agents |-> 0]
    /\ pc = "idle"
    /\ todo = {}
    /\ idx = 1
    /\ steps = 0
    /\ model_vars = <<>>
    /\ agent_vars = <<>>
    /\ ret = NoResult
    /\ ref = [input |-> <<>>, ret |-> NoResult]
    /\ wealth2 = <<>>
    /\ cell2 = <<>>

\* ---- MoneyModel.__init__ ------------------------------------------------
Init ==
    /\ variant \in Variants
    /\ num_agents \in 0..MaxN
    /\ agents = 1..num_agents
    /\ wealth = [a \in 1..num_agents |-> 1]
    /\ cell \in [1..num_agents -> Cells]
    /\ steps_not_given = [a \in 1..num_agents |-> 0]
    /\ pc = "idle"
    /\ todo = {}
    /\ idx = 1
    /\ steps = 0
    /\ model_vars = <<>>
    /\ agent_vars = <<>>
    /\ ret = NoResult
    /\ ref = [input |-> <<>>, ret |-> NoResult]
    /\ wealth2 = <<>>
    /\ cell2 = <<>>

\* [agent.wealth for agent in model.agents]
agent_wealths == [i \in 1..Cardinality(agents) |-> wealth[i]]

\* ---- MoneyModel.step ----------------------------------------------------
\* what one datacollector.collect(model) stores for the agents
AgentRecord ==
    IF variant = "comparing"
    THEN [Wealth |-> wealth, Steps_not_given |-> steps_not_given]
    ELSE [Wealth |-> wealth, Steps_not_given |-> <<>>]

\* self.datacollector.collect(self), the first statement of step(); an
\* exception of the Gini reporter ends the step
collect ==
    /\ pc = "idle"
    /\ steps < MaxSteps
    /\ steps' = steps + 1
    /\ LET g == compute_gini(agent_wealths, num_agents)
       IN  IF g.kind = "ZeroDivisionError"
           THEN /\ pc' = "error"
                /\ UNCHANGED <<model_vars, agent_vars, todo>>
           ELSE /\ model_vars' = Append(model_vars, g)
                /\ agent_vars' = Append(agent_vars, AgentRecord)
                /\ pc' = "move"
                /\ todo' = agents
    /\ UNCHANGED <<variant, agentState, idx, ret, ref>>

moveThenGive(a) ==
    /\ pc = "move"
    /\ a \in todo
    /\ \E c \in Neighborhood(cell[a]) : cell' = [cell EXCEPT ![a] = c]
    /\ todo' = todo \ {a}
    /\ pc' = "give"
    /\ idx' = 1
    /\ UNCHANGED <<variant, num_agents, agents, wealth, steps_not_given, steps,
                   model_vars, agent_vars, ret, ref>>

\* MoneyAgent.move for the agent shuffle_do("move") picks next; after the
\* last one do("give_money") starts with the first agent
move(a) ==
    /\ pc = "move"
    /\ a \in todo
    /\ \E c \in Neighborhood(cell[a]) : cell' = [cell EXCEPT ![a] = c]
    /\ todo' = todo \ {a}
    /\ IF todo' = {} THEN pc' = "give" /\ idx' = 1
                     ELSE pc' = "move" /\ idx' = idx
    /\ UNCHANGED <<variant, num_agents, agents, wealth, steps_not_given, steps,
                   model_vars, agent_vars, ret, ref>>

cellmatesAnyCell(a) == { b \in agents : b # a }

\* [a for a in self.cell.agents if a is not self]
cellmates(a) == { b \in agents : b # a /\ cell[b] = cell[a] }

give_moneyNoGuard(a) ==
    /\ pc = "give"
    /\ a = idx
    /\ IF cellmates(a) # {}
       THEN /\ \E other \in cellmates(a) :
                  wealth' = [wealth EXCEPT ![other] = @ + 1, ![a] = @ - 1]
            /\ steps_not_given' =
                  IF variant = "comparing"
                  THEN [steps_not_given EXCEPT ![a] = 0]
                  ELSE steps_not_given
       ELSE /\ steps_not_given' =
                  IF variant = "comparing"
                  THEN [steps_not_given EXCEPT ![a] = @ + 1]
                  ELSE steps_not_given
            /\ UNCHANGED wealth
    /\ IF a = Cardinality(agents) THEN pc' = "idle" /\ idx' = 1
                         ELSE pc' = "give" /\ idx' = idx + 1
    /\ UNCHANGED <<variant, num_agents, agents, cell, todo, steps, model_vars,
                   agent_vars, ret, ref>>

give_moneyNoReset(a) ==
    /\ pc = "give"
    /\ a = idx
    /\ IF cellmates(a) # {} /\ wealth[a] > 0
       THEN /\ \E other \in cellmates(a) :
                  wealth' = [wealth EXCEPT ![other] = @ + 1, ![a] = @ - 1]
            /\ steps_not_given' = steps_not_given
       ELSE /\ steps_not_given' =
                  IF variant = "comparing"
                  THEN [steps_not_given EXCEPT ![a] = @ + 1]
                  ELSE steps_not_given
            /\ UNCHANGED wealth
    /\ IF a = Cardinality(agents) THEN pc' = "idle" /\ idx' = 1
                         ELSE pc' = "give" /\ idx' = idx + 1
    /\ UNCHANGED <<variant, num_agents, agents, cell, todo, steps, model_vars,
                   agent_vars, ret, ref>>

give_moneyNoDebit(a) ==
    /\ pc = "give"
    /\ a = idx
    /\ IF cellmates(a) # {} /\ wealth[a] > 0
       THEN /\ \E other \in cellmates(a) :
                  wealth' = [wealth EXCEPT ![other] = @ + 1]
            /\ steps_not_given' =
                  IF variant = "comparing"
                  THEN [steps_not_given EXCEPT ![a] = 0]
                  ELSE steps_not_given
       ELSE /\ steps_not_given' =
                  IF variant = "comparing"
                  THEN [steps_not_given EXCEPT ![a] = @ + 1]
                  ELSE steps_not_given
            /\ UNCHANGED wealth
    /\ IF a = Cardinality(agents) THEN pc' = "idle" /\ idx' = 1
                         ELSE pc' = "give" /\ idx' = idx + 1
    /\ UNCHANGED <<variant, num_agents, agents, cell, todo, steps, model_vars,
                   agent_vars, ret, ref>>

\* MoneyAgent.give_money for the agent do("give_money") reaches next; the
\* collecting-data variant has no steps_not_given attribute
give_money(a) ==
    /\ pc = "give"
    /\ a = idx
    /\ IF cellmates(a) # {} /\ wealth[a] > 0
       THEN /\ \E other \in cellmates(a) :
                  wealth' = [wealth EXCEPT ![other] = @ + 1, ![a] = @ - 1]
            /\ steps_not_given' =
                  IF variant = "comparing"
                  THEN [steps_not_given EXCEPT ![a] = 0]
                  ELSE steps_not_given
       ELSE /\ steps_not_given' =
                  IF variant = "comparing"
                  THEN [steps_not_given EXCEPT ![a] = @ + 1]
                  ELSE steps_not_given
            /\ UNCHANGED wealth
    /\ IF a = Cardinality(agents) THEN pc' = "idle" /\ idx' = 1
                         ELSE pc' = "give" /\ idx' = idx + 1
    /\ UNCHANGED <<variant, num_agents, agents, cell, todo, steps, model_vars,
                   agent_vars, ret, ref>>

call_compute_giniSortInPlace ==
    /\ pc = "idle"
    /\ ret' = compute_gini(agent_wealths, num_agents)
    /\ wealth' = sorted(wealth)
    /\ UNCHANGED <<variant, num_agents, agents, cell, steps_not_given, pc, todo,
                   idx, steps, model_vars, agent_vars, ref>>

\* compute_gini(model) called directly, between two step() calls
call_compute_gini ==
    /\ pc = "idle"
    /\ ret' = compute_gini(agent_wealths, num_agents)
    /\ UNCHANGED <<variant, agentState, pc, todo, idx, steps, model_vars,
                   agent_vars, ref>>

Next ==
    \/ collect /\ UNCHANGED second
    \/ \E a \in agents : move(a) /\ UNCHANGED second
    \/ \E a \in agents : give_money(a) /\ UNCHANGED second
    \/ call_compute_gini /\ UNCHANGED second

Spec == Init /\ [][Next]_vars

\* ---- compute_gini on a snapshot of its own --------------------------------
\* a model object with arbitrary non-negative wealths, as compute_gini
\* accepts it from any caller
InitGini ==
    /\ variant = "comparing"
    /\ num_agents \in 1..MaxLen
    /\ agents = 1..num_agents
    /\ wealth \in [1..num_agents -> 0..MaxWealth]
    /\ cell = [a \in 1..num_agents |-> <<0, 0>>]
    /\ steps_not_given = [a \in 1..num_agents |-> 0]
    /\ pc = "idle"
    /\ todo = {}
    /\ idx = 1
    /\ steps = 0
    /\ model_vars = <<>>
    /\ agent_vars = <<>>
    /\ ret = NoResult
    /\ ref = [input |-> <<>>, ret |-> NoResult]
    /\ wealth2 = <<>>
    /\ cell2 = <<>>

\* t holds the values of s in some order
IsPermutation(s, t) ==
    /\ Len(s) = Len(t)
    /\ \A v \in {s[i] : i \in 1..Len(s)} \cup {t[i] : i \in 1..Len(t)} :
           Cardinality({i \in 1..Len(s) : s[i] = v})
               = Cardinality({i \in 1..Len(t) : t[i] = v})

\* the caller keeps the snapshot and its score, and hands the same wealths
\* over in another order
permute ==
    /\ ret.kind # "none"
    /\ ref' = [input |-> wealth, ret |-> ret]
    /\ \E w \in [1..num_agents -> 0..MaxScaled] :
          /\ w # wealth
          /\ IsPermutation(w, wealth)
          /\ wealth' = w
    /\ ret' = NoResult
    /\ UNCHANGED <<variant, num_agents, agents, cell, steps_not_given, pc,
                   todo, idx, steps, model_vars, agent_vars>>

\* the caller keeps the snapshot and its score, and multiplies every wealth
\* by c
scale(c) ==
    /\ ret.kind # "none"
    /\ \A a \in agents : c * wealth[a] <= MaxScaled
    /\ ref' = [input |-> wealth, ret |-> ret]
    /\ wealth' = [a \in agents |-> c * wealth[a]]
    /\ ret' = NoResult
    /\ UNCHANGED <<variant, num_agents, agents, cell, steps_not_given, pc,
                   todo, idx, steps, model_vars, agent_vars>>

NextGini ==
    \/ call_compute_gini /\ UNCHANGED second
    \/ permute /\ UNCHANGED second
    \/ \E c \in 2..MaxScale : scale(c) /\ UNCHANGED second

SpecGini == InitGini /\ [][NextGini]_vars

\* ---- the two notebooks' models side by side --------------------------------
\* a comparing-scenarios model (wealth, cell, steps_not_given) and a
\* collecting-data model (wealth2, cell2) built with the same n, width,
\* height and seed, hence with the same placement and the same random draws
InitPair ==
    /\ variant = "comparing"
    /\ num_agents \in 0..MaxN
    /\ agents = 1..num_agents
    /\ wealth = [a \in 1..num_agents |-> 1]
    /\ cell \in [1..num_agents -> Cells]
    /\ steps_not_given = [a \in 1..num_agents |-> 0]
    /\ pc = "idle"
    /\ todo = {}
    /\ idx = 1
    /\ steps = 0
    /\ model_vars = <<>>
    /\ agent_vars = <<>>
    /\ ret = NoResult
    /\ ref = [input |-> <<>>, ret |-> NoResult]
    /\ wealth2 = [a \in 1..num_agents |-> 1]
    /\ cell2 = cell

\* the place of x in the list S, and the k-th entry of the list S; a list
\* of agents is taken in creation order
Rank(S, x) == Cardinality({y \in S : y < x}) + 1
Pick(S, k) == CHOOSE x \in S : Rank(S, x) = k

\* [a for a in self.cell.agents if a is not self] in the second model
cellmates2(a) == { b \in agents : b # a /\ cell2[b] = cell2[a] }

\* MoneyAgent.move of the second model; the same random draw selects the
\* neighbour in the same direction d
move2(a, d) ==
    /\ cell2' = [cell2 EXCEPT
                    ![a] = <<(@[1] + d[1]) % Width, (@[2] + d[2]) % Height>>]
    /\ UNCHANGED wealth2

\* MoneyAgent.give_money of the second model; the same random draw selects
\* the k-th cellmate, and any cellmate when the first model drew nothing
\* (k = 0) or the list is shorter than k
give_money2(a, k) ==
    /\ IF wealth2[a] > 0 /\ cellmates2(a) # {}
       THEN \E other_agent \in cellmates2(a) :
               /\ k \in 1..Cardinality(cellmates2(a))
                     => other_agent = Pick(cellmates2(a), k)
               /\ wealth2' = [wealth2 EXCEPT ![other_agent] = @ + 1,
                                             ![a] = @ - 1]
       ELSE UNCHANGED wealth2
    /\ UNCHANGED cell2

\* step() of both models: both collect
pair_collect == collect /\ UNCHANGED second

\* shuffle_do("move") reaches the same agent in both models
pair_move(a) ==
    /\ move(a)
    /\ move2(a, <<(cell'[a][1] - cell[a][1]) % Width,
                  (cell'[a][2] - cell[a][2]) % Height>>)

\* do("give_money") reaches the same agent in both models
pair_give(a) ==
    /\ give_money(a)
    /\ give_money2(a, IF wealth' = wealth THEN 0
                      ELSE Rank(cellmates(a),
                                CHOOSE b \in agents :
                                    wealth'[b] = wealth[b] + 1))

NextPair ==
    \/ pair_collect
    \/ \E a \in agents : pair_move(a)
    \/ \E a \in agents : pair_give(a)

SpecPair == InitPair /\ [][NextPair]_vars

\* ---- properties ----------------------------------------------------------
\* the wealths of a snapshot in ascending order, stated without the sort
Ascending(w) ==
    CHOOSE x \in [1..Len(w) -> {w[i] : i \in 1..Len(w)}] :
        /\ IsPermutation(x, w)
        /\ \A i \in 1..(Len(w) - 1) : x[i] <= x[i + 1]

\* the sum over i in lo..(n - 1) of x[i] * (n - i), x indexed from 0
RECURSIVE Sigma(_, _, _)
Sigma(x, n, lo) ==
    IF lo > n - 1 THEN 0 ELSE x[lo + 1] * (n - lo) + Sigma(x, n, lo + 1)

Called == ret.kind # "none"
TotalWealth == SumSeq(agent_wealths)

\* C1: in every reachable state of MoneyModel, between any two agent calls
\* of a step as well as between steps, the agents' wealths add up to n
C1_TotalWealthIsN == TotalWealth = num_agents

\* a transfer has happened in the running step
C1_Witness ==
    /\ pc = "give"
    /\ idx > 1
    /\ \E a \in agents : wealth[a] >= 2
    /\ \E a \in agents : wealth[a] = 0

\* C2: in every reachable state of MoneyModel every agent's wealth is a
\* non-negative integer
C2_WealthNonNegative == \A a \in agents : wealth[a] \in Nat

\* give_money has run for an agent that had cellmates and no wealth
C2_Witness ==
    /\ variant = "comparing"
    /\ pc = "give"
    /\ \E a \in agents :
          /\ a < idx
          /\ wealth[a] = 0
          /\ steps_not_given[a] = 1
          /\ \E b \in cellmates(a) : b > a

\* C3: for a non-empty snapshot of n wealths with sum S > 0, compute_gini
\* returns exactly 1 + 1/n - 2 * B, where B is the sum of x[i] * (n - i)
\* over i in 0..n-1 divided by n * S and x is the snapshot in ascending order
C3_GiniFormula ==
    (Called /\ TotalWealth > 0) =>
        LET n == Len(agent_wealths)
            S == TotalWealth
            x == Ascending(agent_wealths)
        IN  /\ ret.kind = "value"
            /\ ret.den > 0
            /\ ret.num * (n * S) = ret.den * (n * S + S - 2 * Sigma(x, n, 0))

\* the score of the unsorted snapshot 2, 0, 1 has been computed
C3_Witness ==
    /\ ret.kind = "value"
    /\ agent_wealths = <<2, 0, 1>>
    /\ ret.num * 9 = ret.den * 4

\* C4: for a non-empty snapshot with sum > 0 the score lies in [0, 1]
C4_GiniInUnitInterval ==
    (Called /\ TotalWealth > 0) =>
        /\ ret.kind = "value"
        /\ ret.den > 0
        /\ 0 <= ret.num
        /\ ret.num <= ret.den

\* a score strictly between 0 and 1 has been computed for a snapshot that
\* is not in ascending order
C4_Witness ==
    /\ ret.kind = "value"
    /\ agent_wealths = <<3, 0, 0>>
    /\ 0 < ret.num
    /\ ret.num < ret.den

AllZero == \A a \in agents : wealth[a] = 0

C6_EqualWealthScoresZero ==
    (Called /\ \E w \in 1..MaxScaled : \A a \in agents : wealth[a] = w)
        => ret = Fraction(0, 1)

\* the score of three agents holding 2 each has been computed
C6_Witness ==
    /\ Called
    /\ agent_wealths = <<2, 2, 2>>
    /\ ret.kind = "value"
    /\ ret.num = 0

\* C7: when one individual holds all S > 0 units and the other n - 1 hold
\* none, the score is 1 - 1/n
C7_OneHolderScore ==
    (Called /\ \E a \in agents :
                  /\ wealth[a] > 0
                  /\ \A b \in agents \ {a} : wealth[b] = 0)
        => ret = Fraction(num_agents - 1, num_agents)

\* the score of 0, 3, 0 has been computed and is 2/3
C7_Witness ==
    /\ Called
    /\ agent_wealths = <<0, 3, 0>>
    /\ ret.kind = "value"
    /\ ret.num = 2
    /\ ret.den = 3

\* C8: two snapshots that are permutations of each other, with sum > 0,
\* get the same score
C8_OrderIndependent ==
    (/\ Called
     /\ ref.ret.kind # "none"
     /\ IsPermutation(agent_wealths, ref.input)
     /\ TotalWealth > 0)
        => (ret.kind = "value" /\ ret = ref.ret)

\* both a snapshot and a different ordering of it have been scored
C8_Witness ==
    /\ ret.kind = "value"
    /\ ref.ret.kind = "value"
    /\ agent_wealths # ref.input
    /\ IsPermutation(agent_wealths, ref.input)
    /\ ref.input = <<3, 0, 1>>

\* C9: a snapshot with sum > 0 and the same snapshot with every wealth
\* multiplied by a positive integer c get the same score
C9_ScaleIndependent ==
    \A c \in 1..MaxScale :
        (/\ Called
         /\ ref.ret.kind # "none"
         /\ Len(ref.input) = Len(agent_wealths)
         /\ \A i \in 1..Len(ref.input) : agent_wealths[i] = c * ref.input[i]
         /\ TotalWealth > 0)
            => (ret.kind = "value" /\ ret = ref.ret)

\* both a snapshot with unequal wealths and its double have been scored
C9_Witness ==
    /\ ret.kind = "value"
    /\ ref.ret.kind = "value"
    /\ ref.input = <<1, 0, 2>>
    /\ agent_wealths = <<2, 0, 4>>

\* C10: a call of compute_gini, direct or through datacollector.collect,
\* leaves every agent's wealth, cell and steps_not_given, the set of agents
\* and num_agents unchanged, and a direct call between two steps changes
\* nothing else of the model either
C10_NoSideEffects ==
    [][/\ (ret' # ret \/ Len(model_vars') > Len(model_vars))
           => UNCHANGED agentState
       /\ ret' # ret
           => UNCHANGED <<variant, pc, todo, idx, steps, model_vars,
                          agent_vars>>]_vars

\* compute_gini has been called directly on unequal, unsorted wealths after
\* a step, and a later collect has run as well
C10_Witness ==
    /\ ret.kind = "value"
    /\ ret.num > 0
    /\ Len(model_vars) = 2
    /\ model_vars[2] = ret
    /\ \E a \in agents : a + 1 \in agents /\ wealth[a] > wealth[a + 1]

\* the latest record of the data collector
LastRecord == agent_vars[Len(agent_vars)]

\* another agent stands in the cell of agent a
HasCellmate(a) == \E b \in agents \ {a} : cell[b] = cell[a]

C12_StepsNotGiven ==
    [][variant = "comparing" =>
          /\ steps = 0 => \A a \in agents : steps_not_given[a] = 0
          /\ pc = "give" =>
                /\ steps_not_given'[idx] =
                      IF wealth'[idx] = wealth[idx] - 1
                      THEN 0 ELSE steps_not_given[idx] + 1
                /\ \A b \in agents \ {idx} :
                      steps_not_given'[b] = steps_not_given[b]
          /\ pc # "give" => UNCHANGED steps_not_given]_vars

\* after two steps one agent has not given twice in a row, and another,
\* recorded with 1 round without giving, gave in the second round
C12_Witness ==
    /\ variant = "comparing"
    /\ pc = "idle"
    /\ steps = 2
    /\ \E a, c \in agents :
          /\ steps_not_given[a] = 2
          /\ LastRecord.Steps_not_given[c] = 1
          /\ steps_not_given[c] = 0

C14_TransferToCellmate ==
    [][/\ wealth' # wealth =>
             /\ pc = "give"
             /\ \E b \in agents \ {idx} :
                   /\ cell[b] = cell[idx]
                   /\ wealth' = [wealth EXCEPT ![idx] = @ - 1, ![b] = @ + 1]
       /\ (variant = "comparing" /\ pc = "give"
              /\ steps_not_given'[idx] = 0) =>
             wealth'[idx] = wealth[idx] - 1]_vars

\* the first agent has just given to its only cellmate while the third
\* agent stands in another cell
C14_Witness ==
    /\ pc = "give"
    /\ idx = 2
    /\ steps = 1
    /\ num_agents = 3
    /\ cell[1] = cell[3]
    /\ cell[2] # cell[1]
    /\ wealth = <<0, 1, 2>>

\* C15: a give_money call on an agent without wealth or without cellmate
\* changes no wealth and no cell, and nothing but the caller's
\* steps_not_given, which grows by 1 in the comparing-scenarios model; a
\* call that transfers changes the wealth of the caller and of one other
\* agent only
C15_GiveMoneyFrame ==
    [][pc = "give" =>
          /\ (wealth[idx] = 0 \/ ~HasCellmate(idx)) =>
                /\ wealth' = wealth
                /\ cell' = cell
                /\ steps_not_given' =
                      IF variant = "comparing"
                      THEN [steps_not_given EXCEPT ![idx] = @ + 1]
                      ELSE steps_not_given
                /\ UNCHANGED <<num_agents, agents, model_vars, agent_vars>>
          /\ wealth' # wealth =>
                /\ wealth'[idx] # wealth[idx]
                /\ Cardinality({b \in agents : wealth'[b] # wealth[b]}) = 2
                /\ cell' = cell]_vars

\* in the second round give_money has run for an agent that holds wealth
\* but stands alone, and for an agent that had a cellmate but, recorded with
\* wealth 0, nothing to give
C15_Witness ==
    /\ variant = "comparing"
    /\ pc = "idle"
    /\ steps = 2
    /\ \E a, b \in agents :
          /\ wealth[a] > 0
          /\ ~HasCellmate(a)
          /\ steps_not_given[a] >= 1
          /\ LastRecord.Wealth[b] = 0
          /\ HasCellmate(b)
          /\ steps_not_given[b] = 1

\* C16: in every reachable state model.agents holds num_agents agents, so
\* compute_gini sorts exactly n wealths, and every record holds n wealths
C16_AgentCount ==
    /\ Cardinality(agents) = num_agents
    /\ Len(sorted(agent_wealths)) = num_agents
    /\ DOMAIN wealth = agents
    /\ \A k \in 1..Len(agent_vars) :
          Cardinality(DOMAIN agent_vars[k].Wealth) = num_agents

\* two steps of a model of three agents are over
C16_Witness ==
    /\ pc = "idle"
    /\ steps = 2
    /\ num_agents = 3
    /\ Cardinality(agents) = 3
    /\ Len(agent_vars) = 2

\* C17: in a model built with n >= 1 agents the divisor n * sum(x) of
\* compute_gini is n * n, hence not 0, in every state, no collection and no
\* direct call raises, and a step fails only in a model without agents
C17_DivisorNonZero ==
    /\ num_agents >= 1 =>
          /\ divisor(sorted(agent_wealths), num_agents)
                = num_agents * num_agents
          /\ divisor(sorted(agent_wealths), num_agents) # 0
          /\ pc # "error"
          /\ ret.kind # "ZeroDivisionError"
          /\ \A k \in 1..Len(model_vars) : model_vars[k].kind = "value"
    /\ pc = "error" => num_agents = 0

\* the second collection has scored wealths of which one is 0
C17_Witness ==
    /\ num_agents = 3
    /\ pc = "move"
    /\ steps = 2
    /\ Len(model_vars) = 2
    /\ model_vars[2].kind = "value"
    /\ \E a \in agents : wealth[a] = 0

\* C18: in a model with n >= 1 agents the first Gini value collected is 0
\* and the first record holds wealth 1 for every agent; after k steps there
\* are k records, and the record of a step is the state before any transfer
\* of that step, so the state after the k-th round is not recorded
C18_FirstGiniZero ==
    /\ Len(model_vars) >= 1 =>
          /\ model_vars[1] = Fraction(0, 1)
          /\ agent_vars[1].Wealth = [a \in agents |-> 1]
    /\ (pc = "idle" /\ num_agents >= 1) =>
          /\ Len(model_vars) = steps
          /\ Len(agent_vars) = steps
    /\ pc = "move" =>
          /\ Len(agent_vars) = steps
          /\ LastRecord.Wealth = wealth

\* two steps are over, the second Gini value is above 0, and the wealths
\* after the second round differ from the last record
C18_Witness ==
    /\ pc = "idle"
    /\ steps = 2
    /\ Len(model_vars) = 2
    /\ model_vars[1].num = 0
    /\ model_vars[2].num > 0
    /\ LastRecord.Wealth # wealth

\* C19: a comparing-scenarios model and a collecting-data model run side by
\* side from the same placement with the same random draws hold the same
\* wealth and cell for every agent in every state, so steps_not_given has
\* no influence on wealth or movement
C19_SameWealthAndCell ==
    /\ wealth2 = wealth
    /\ cell2 = cell

\* both models have run two steps, with transfers and with an agent of the
\* first model that did not give in the last round
C19_Witness ==
    /\ pc = "idle"
    /\ steps = 2
    /\ num_agents = 3
    /\ wealth2 = wealth
    /\ cell2 = cell
    /\ \E a \in agents : wealth[a] = 0
    /\ \E a \in agents : steps_not_given[a] >= 1
    /\ LastRecord.Wealth # wealth

====
